---------------------------- MODULE Spec2Model ----------------------------
(***************************************************************************)
(* A model of BaseModel (src/unnamed/part_000, src/example/bundle.js):     *)
(* the registries, container declaration with inheritance, indirect        *)
(* processor-name resolution, processor-chain execution, guard evaluation  *)
(* and field extraction.                                                   *)
(*                                                                         *)
(* JavaScript strings are TLA+ strings, taken apart with Len, SubSeq and   *)
(* \o, so that split / indexOf / replace / match are computed as the code  *)
(* computes them.  JavaScript values are records of one shape ("Values").  *)
(***************************************************************************)
EXTENDS Integers, Sequences, FiniteSets

(***************************************************************************)
(* Strings                                                                 *)
(***************************************************************************)

\* String.prototype.indexOf from a 1-based start position; JS result (0-based, -1).
RECURSIVE indexOfFrom(_, _, _)
indexOfFrom(s, sub, i) ==
  IF i + Len(sub) - 1 > Len(s) THEN -1
  ELSE IF SubSeq(s, i, i + Len(sub) - 1) = sub THEN i - 1
  ELSE indexOfFrom(s, sub, i + 1)

\* String.prototype.indexOf(sub)
indexOf(s, sub) == indexOfFrom(s, sub, 1)

\* String.prototype.split(sep), sep a non-empty string
RECURSIVE split(_, _)
split(s, sep) ==
  LET i == indexOf(s, sep)
  IN IF i < 0 THEN <<s>>
     ELSE <<SubSeq(s, 1, i)>> \o split(SubSeq(s, i + Len(sep) + 1, Len(s)), sep)

\* Array.prototype.join(sep) on an array of strings
RECURSIVE join(_, _)
join(parts, sep) ==
  IF Len(parts) = 0 THEN ""
  ELSE IF Len(parts) = 1 THEN parts[1]
  ELSE parts[1] \o sep \o join(Tail(parts), sep)

\* String.prototype.replace(pat, rep) with a string pattern: first occurrence only
replace(s, pat, rep) ==
  LET i == indexOf(s, pat)
  IN IF i < 0 THEN s
     ELSE SubSeq(s, 1, i) \o rep \o SubSeq(s, i + Len(pat) + 1, Len(s))

\* String.prototype.replace(/[chars]/g, ''): every character of the class removed
RECURSIVE removeAll(_, _)
removeAll(s, chars) ==
  IF Len(s) = 0 THEN ""
  ELSE (IF Head(s) \in chars THEN "" ELSE Head(s)) \o removeAll(Tail(s), chars)

\* the characters \s matches, among those the model's strings use
WhiteSpace == {" "}

\* String.prototype.trim()
RECURSIVE trim(_)
trim(s) ==
  IF Len(s) = 0 THEN s
  ELSE IF Head(s) \in WhiteSpace THEN trim(Tail(s))
  ELSE IF SubSeq(s, Len(s), Len(s)) \in WhiteSpace THEN trim(SubSeq(s, 1, Len(s) - 1))
  ELSE s

\* arr.slice(-1).join(''): the last element of a non-empty array of strings
sliceLast(arr) == arr[Len(arr)]

\* arr.slice(1, -1).join('.'): the elements between the first and the last
sliceMiddle(arr) ==
  IF Len(arr) <= 2 THEN "" ELSE join(SubSeq(arr, 2, Len(arr) - 1), ".")

\* the last position (1-based) of character c in s, 0 if none
RECURSIVE lastPos(_, _)
lastPos(s, c) ==
  IF Len(s) = 0 THEN 0
  ELSE IF SubSeq(s, Len(s), Len(s)) = c THEN Len(s)
  ELSE lastPos(SubSeq(s, 1, Len(s) - 1), c)

\* the character of s at 1-based position i
charAt(s, i) == SubSeq(s, i, i)

\* lower case of the letters the /i flag of the guard pattern concerns
lower(c) == IF c = "I" THEN "i" ELSE IF c = "F" THEN "f" ELSE c

\* the leftmost position (1-based) from i where /if\((.+)\)/i matches, 0 if none:
\* "if(" (any case), then at least one character, then a later ")"
RECURSIVE condStart(_, _)
condStart(s, i) ==
  IF i + 4 > Len(s) THEN 0
  ELSE IF /\ lower(charAt(s, i)) = "i" /\ lower(charAt(s, i + 1)) = "f"
          /\ charAt(s, i + 2) = "("
          /\ lastPos(s, ")") >= i + 4
       THEN i
       ELSE condStart(s, i + 1)

\* el.match(/if\((.+)\)/i): [found, group 1]; .+ is greedy, so group 1 runs to
\* the last ")" of the string
matchCondition(el) ==
  LET i == condStart(el, 1)
  IN IF i = 0 THEN [found |-> FALSE, group |-> ""]
     ELSE [found |-> TRUE, group |-> SubSeq(el, i + 3, lastPos(el, ")") - 1)]

\* el.replace(/if\((.+)\)/ig, ''): the match runs to the last ")", so there is
\* at most one
removeCondition(el) ==
  LET i == condStart(el, 1)
  IN IF i = 0 THEN el
     ELSE SubSeq(el, 1, i - 1) \o SubSeq(el, lastPos(el, ")") + 1, Len(el))

(***************************************************************************)
(* Values                                                                  *)
(*                                                                         *)
(* A JavaScript value is a record [t, n, s, a, o]: t its type tag, n the   *)
(* number (or 1/0 for true/false), s the string, a the elements of an      *)
(* array, o the entries [k, v] of an object in insertion order.  A thrown  *)
(* exception is a value whose tag is the error's name.                     *)
(***************************************************************************)
Val(t, n, s, a, o) == [t |-> t, n |-> n, s |-> s, a |-> a, o |-> o]
Undefined == Val("undefined", 0, "", <<>>, <<>>)
Null == Val("null", 0, "", <<>>, <<>>)
NaN == Val("NaN", 0, "", <<>>, <<>>)
Bool(b) == Val("boolean", IF b THEN 1 ELSE 0, "", <<>>, <<>>)
Num(k) == Val("number", k, "", <<>>, <<>>)
Str(s) == Val("string", 0, s, <<>>, <<>>)
Arr(elems) == Val("array", 0, "", elems, <<>>)
Obj(entries) == Val("object", 0, "", <<>>, entries)
Throw(name) == Val(name, 0, "", <<>>, <<>>)

\* how a call ends when it does not return: the exception thrown, or
\* "Diverges" when it never returns at all
Errors == {"TypeError", "SyntaxError", "ReferenceError", "RangeError", "Diverges"}
IsThrow(v) == v.t \in Errors

\* !value is false
Truthy(v) ==
  CASE v.t \in {"undefined", "null", "NaN"} -> FALSE
    [] v.t = "boolean" -> v.n = 1
    [] v.t = "number" -> v.n # 0
    [] v.t = "string" -> v.s # ""
    [] OTHER -> TRUE

\* a || b
Or(a, b) == IF Truthy(a) THEN a ELSE b

\* the entry of key k in the entries of an object, 0 if none
RECURSIVE entryPos(_, _, _)
entryPos(entries, k, i) ==
  IF i > Len(entries) THEN 0
  ELSE IF entries[i].k = k THEN i
  ELSE entryPos(entries, k, i + 1)

HasKey(entries, k) == entryPos(entries, k, 1) # 0

\* the field-spec string stored under key k of a field-spec mapping that has it
SpecOf(entries, k) == entries[entryPos(entries, k, 1)].v

\* obj[k] on the entries of an object: undefined for a missing key
Lookup(entries, k) ==
  IF HasKey(entries, k) THEN entries[entryPos(entries, k, 1)].v ELSE Undefined

\* obj[k] = v on the entries of an object: an existing key keeps its place
Store(entries, k, v) ==
  IF HasKey(entries, k)
  THEN [entries EXCEPT ![entryPos(entries, k, 1)] = [k |-> k, v |-> v]]
  ELSE Append(entries, [k |-> k, v |-> v])

\* Object.assign({}, a, b) on entries: a's keys in order, then b's new keys;
\* b's value wins on a shared key
RECURSIVE assign(_, _)
assign(a, b) ==
  IF Len(b) = 0 THEN a
  ELSE assign(Store(a, b[1].k, b[1].v), Tail(b))

\* model[k] for any value: a TypeError on undefined and null, undefined on
\* any other value that is no object (own data properties only)
Get(v, k) ==
  CASE IsThrow(v) -> v
    [] v.t \in {"undefined", "null"} -> Throw("TypeError")
    [] v.t = "object" -> Lookup(v.o, k)
    [] OTHER -> Undefined

Digits == <<"0", "1", "2", "3", "4", "5", "6", "7", "8", "9">>
IsDigit(c) == \E d \in 1..10 : Digits[d] = c
DigitVal(c) == (CHOOSE d \in 1..10 : Digits[d] = c) - 1

\* the decimal text of a natural number
RECURSIVE natToStr(_)
natToStr(k) ==
  IF k < 10 THEN Digits[k + 1] ELSE natToStr(k \div 10) \o Digits[(k % 10) + 1]

\* the decimal text of an integer
intToStr(k) == IF k < 0 THEN "-" \o natToStr(0 - k) ELSE natToStr(k)

\* the length of the longest prefix of s that is all digits
RECURSIVE digitPrefix(_)
digitPrefix(s) ==
  IF Len(s) = 0 \/ ~IsDigit(Head(s)) THEN 0 ELSE 1 + digitPrefix(Tail(s))

\* the number a non-empty string of digits denotes
RECURSIVE digitsToNat(_, _)
digitsToNat(s, acc) ==
  IF Len(s) = 0 THEN acc ELSE digitsToNat(Tail(s), 10 * acc + DigitVal(Head(s)))

\* String(v) / v.toString() / '' + v, for a value that is no exception
RECURSIVE toStr(_)
toStr(v) ==
  CASE v.t = "undefined" -> "undefined"
    [] v.t = "null" -> "null"
    [] v.t = "NaN" -> "NaN"
    [] v.t = "boolean" -> IF v.n = 1 THEN "true" ELSE "false"
    [] v.t = "number" -> intToStr(v.n)
    [] v.t = "string" -> v.s
    [] v.t = "array" ->
         join([i \in 1..Len(v.a) |->
                 IF v.a[i].t \in {"undefined", "null"} THEN "" ELSE toStr(v.a[i])],
              ",")
    [] OTHER -> "[object Object]"

\* parseInt(text): leading white space, a sign, then the longest run of digits
parseIntText(text) ==
  LET t == trim(text)
      neg == Len(t) > 0 /\ Head(t) = "-"
      body == IF Len(t) > 0 /\ Head(t) \in {"-", "+"} THEN Tail(t) ELSE t
      k == digitPrefix(body)
  IN IF k = 0 THEN NaN
     ELSE Num((IF neg THEN -1 ELSE 1) * digitsToNat(SubSeq(body, 1, k), 0))

\* parseInt(value)
parseInt(v) == parseIntText(toStr(v))

\* Number(text): the whole trimmed text is an integer, or empty (0)
textToNumber(text) ==
  LET t == trim(text)
      neg == Len(t) > 0 /\ Head(t) = "-"
      body == IF Len(t) > 0 /\ Head(t) \in {"-", "+"} THEN Tail(t) ELSE t
  IN IF t = "" THEN Num(0)
     ELSE IF Len(body) > 0 /\ digitPrefix(body) = Len(body)
          THEN Num((IF neg THEN -1 ELSE 1) * digitsToNat(body, 0))
          ELSE NaN

\* Number(v)
ToNumber(v) ==
  CASE v.t = "number" -> v
    [] v.t = "boolean" -> Num(v.n)
    [] v.t = "null" -> Num(0)
    [] v.t \in {"string", "array"} -> textToNumber(toStr(v))
    [] OTHER -> NaN

\* one JSON scalar: null, true, false, an integer without leading zeros, or a
\* string without escapes; anything else is a SyntaxError
parseScalar(text) ==
  LET t == trim(text)
      body == IF Len(t) > 0 /\ Head(t) = "-" THEN Tail(t) ELSE t
  IN CASE t = "null" -> Null
       [] t = "true" -> Bool(TRUE)
       [] t = "false" -> Bool(FALSE)
       [] /\ Len(body) > 0 /\ digitPrefix(body) = Len(body)
          /\ (Len(body) = 1 \/ Head(body) # "0") ->
            Num((IF t = body THEN 1 ELSE -1) * digitsToNat(body, 0))
       [] /\ Len(t) >= 2 /\ Head(t) = "\"" /\ charAt(t, Len(t)) = "\""
          /\ indexOf(SubSeq(t, 2, Len(t) - 1), "\"") < 0
          /\ indexOf(t, "\\") < 0 ->
            Str(SubSeq(t, 2, Len(t) - 1))
       [] OTHER -> Throw("SyntaxError")

\* JSON.parse(text), for the texts a modifier token can carry: a scalar, {} or
\* a flat array of scalars.  A missing text (undefined) parses as "undefined",
\* which is a SyntaxError like every other malformed text.
JSONparse(text) ==
  LET t == trim(text)
  IN IF Len(t) >= 2 /\ Head(t) = "[" /\ charAt(t, Len(t)) = "]"
     THEN LET inner == trim(SubSeq(t, 2, Len(t) - 1))
              parts == split(inner, ",")
              elems == [i \in 1..Len(parts) |-> parseScalar(parts[i])]
          IN IF inner = "" THEN Arr(<<>>)
             ELSE IF \E i \in 1..Len(elems) : IsThrow(elems[i])
                  THEN Throw("SyntaxError")
                  ELSE Arr(elems)
     ELSE IF removeAll(t, WhiteSpace) = "{}" /\ Head(t) = "{" THEN Obj(<<>>)
     ELSE parseScalar(t)

(***************************************************************************)
(* State                                                                   *)
(***************************************************************************)
VARIABLES
  processors,            \* this.processors: name -> processor function
  modifiers,             \* this.modifiers: name -> modifier function
  parent,                \* this.parent: null or an object
  self,                  \* the properties a subclass puts on the model itself
  containers,            \* this.containers: name -> [name, fields, data]
  described_containers,  \* this.described_containers: name -> field-spec entries
  last                   \* what the last call did: its arguments, outcome, diagnostics

vars == <<processors, modifiers, parent, self, containers, described_containers, last>>

(***************************************************************************)
(* Processor and modifier functions                                        *)
(***************************************************************************)

\* 'int': (value) => !value ? 0 : (parseInt(value) ? +parseInt(value) : 0)
int(value) ==
  IF ~Truthy(value) THEN Num(0)
  ELSE IF Truthy(parseInt(value)) THEN parseInt(value) ELSE Num(0)

\* 'string': (value) => (typeof value) == 'string' ? value : (!value ? '' : ''+value)
string(value) ==
  IF value.t = "string" THEN value
  ELSE IF ~Truthy(value) THEN Str("") ELSE Str(toStr(value))

\* 'array': (value) => Array.isArray(value) ? value : []
array(value) == IF value.t = "array" THEN value ELSE Arr(<<>>)

\* 'bool': (value) => value ? true : false
bool(value) == Bool(Truthy(value))

\* 'usd' / 'kzt': (value) => value.toString() != 'NaN'
\*    ? (value.toString().indexOf(sign) < 0 ? value + sign : value) : value
currency(value, sign) ==
  IF value.t \in {"undefined", "null"} THEN Throw("TypeError")
  ELSE IF toStr(value) # "NaN"
       THEN (IF indexOf(toStr(value), sign) < 0 THEN Str(toStr(value) \o sign) ELSE value)
       ELSE value

\* the processor functions a registry can hold: the six of the constructor
ProcessorFns == {"int", "string", "array", "bool", "usd", "kzt"}

\* fn(value) for a processor function
CallProcessor(fn, value) ==
  CASE fn = "int" -> int(value)
    [] fn = "string" -> string(value)
    [] fn = "array" -> array(value)
    [] fn = "bool" -> bool(value)
    [] fn = "usd" -> currency(value, "$")
    [] fn = "kzt" -> currency(value, "₸")

\* what the constructor registers
BuiltinProcessors ==
  [name \in ProcessorFns |-> name]

\* strip: (value, param) => { return { value: value.substr(0, param) } }
strip(value, param) ==
  LET substr(k) ==
        SubSeq(value.s, 1, IF k.t # "number" \/ k.n < 0 THEN 0
                           ELSE IF k.n > Len(value.s) THEN Len(value.s) ELSE k.n)
  IN IF value.t # "string" THEN Throw("TypeError")
     ELSE Obj(<<[k |-> "value", v |-> Str(substr(ToNumber(param)))]>>)

\* allow: (value, params) => { return { break: params.indexOf(value) >= 0 } }
allow(value, params) ==
  CASE params.t = "array" ->
         Obj(<<[k |-> "break",
                v |-> Bool(/\ value.t \notin {"NaN", "array", "object"}
                           /\ \E i \in 1..Len(params.a) : params.a[i] = value)]>>)
    [] params.t = "string" ->
         Obj(<<[k |-> "break", v |-> Bool(indexOf(params.s, toStr(value)) >= 0)]>>)
    [] OTHER -> Throw("TypeError")

\* default: (value, param) => { return { value: value || param } }
default(value, param) == Obj(<<[k |-> "value", v |-> Or(value, param)]>>)

\* p[i] (i 0-based) as JavaScript reads it from a parsed parameter
elem(p, i) ==
  CASE p.t = "null" -> Throw("TypeError")
    [] p.t = "array" -> IF i + 1 <= Len(p.a) THEN p.a[i + 1] ELSE Undefined
    [] p.t = "string" -> IF i + 1 <= Len(p.s) THEN Str(charAt(p.s, i + 1)) ELSE Undefined
    [] OTHER -> Undefined

\* a caller's modifier that returns what its parameter says:
\* (value, p) => ({ value: p[0], break: p[1] })
pair(value, p) ==
  IF p.t = "null" THEN Throw("TypeError")
  ELSE Obj(<<[k |-> "value", v |-> elem(p, 0)], [k |-> "break", v |-> elem(p, 1)]>>)

\* the modifier functions a registry can hold
ModifierFns == {"strip", "allow", "default", "pair"}

\* fn(value, params) for a modifier function
CallModifier(fn, value, params) ==
  CASE fn = "strip" -> strip(value, params)
    [] fn = "allow" -> allow(value, params)
    [] fn = "default" -> default(value, params)
    [] fn = "pair" -> pair(value, params)

(***************************************************************************)
(* Processor chains                                                        *)
(***************************************************************************)

\* this.processors[name] / this.modifiers[name] is truthy
Registered(registry, name) == name \in DOMAIN registry

\* proceedProcessor(name, data)
proceedProcessor(name, data) ==
  IF Registered(processors, name)
  THEN CallProcessor(processors[name], data)
  ELSE Undefined

\* if (is_stop) { break } as it would be if the flag were never looked at
breaksNever(is_stop) == FALSE

\* if (is_stop) { break }: whether the loop ends after a modifier token
breaks(is_stop) == Truthy(is_stop)

\* One token of the loop of createProcessorCallie, applied to the accumulator
\* and the stop flag: [acc, is_stop, called, ret, stop], where acc is an
\* exception when JSON.parse, the function or the reading of its result throws,
\* called says whether a registered function was invoked, ret is what it
\* returned and stop whether the loop breaks after this token.
chainToken(name, acc, is_stop) ==
  LET mod_name == split(name, ":")[1]
      called == Registered(modifiers, mod_name)
      Stopped(mod_result, new_acc, new_stop) ==
        [acc |-> new_acc, is_stop |-> new_stop, called |-> called,
         ret |-> mod_result, stop |-> breaks(new_stop)]
      Returned(mod_result) ==
        IF IsThrow(mod_result)
        THEN [acc |-> mod_result, is_stop |-> is_stop, called |-> TRUE,
              ret |-> mod_result, stop |-> TRUE]
        ELSE IF called
        THEN Stopped(mod_result, Or(Get(mod_result, "value"), acc),
                     Or(Get(mod_result, "break"), is_stop))
        ELSE Stopped(mod_result, acc, is_stop)
      Parsed(mod_params) ==
        IF IsThrow(mod_params)
        THEN [acc |-> mod_params, is_stop |-> is_stop, called |-> FALSE,
              ret |-> Undefined, stop |-> TRUE]
        ELSE Returned(IF called
                      THEN CallModifier(modifiers[mod_name], acc, mod_params)
                      ELSE Undefined)
      Processed(r) ==
        [acc |-> r, is_stop |-> is_stop, called |-> Registered(processors, name),
         ret |-> r, stop |-> IsThrow(r)]
  IN IF indexOf(name, ":") >= 0
     THEN Parsed(JSONparse(split(name, ":")[2]))
     ELSE Processed(proceedProcessor(name, acc))

\* the loop of createProcessorCallie from token i on; log records every token
\* the loop reached: [idx, name, before, called, ret, acc]
RECURSIVE chainLoop(_, _, _, _, _)
chainLoop(names_ar, i, acc, is_stop, log) ==
  IF i > Len(names_ar) THEN [value |-> acc, log |-> log]
  ELSE LET Logged(t, entries) ==
             IF t.stop
             THEN [value |-> t.acc, log |-> entries]
             ELSE chainLoop(names_ar, i + 1, t.acc, t.is_stop, entries)
           Step(t) ==
             Logged(t, Append(log, [idx |-> i, name |-> names_ar[i], before |-> acc,
                                    called |-> t.called, ret |-> t.ret,
                                    acc |-> t.acc]))
       IN Step(chainToken(names_ar[i], acc, is_stop))

\* createProcessorCallie(names)(data): [value, log]; value is the returned
\* accumulator, or the exception that ended the call
createProcessorCallie(names, data) ==
  chainLoop(split(names, "."), 1, data, Bool(FALSE), <<>>)

(***************************************************************************)
(* Paths and guards                                                        *)
(***************************************************************************)

\* the reduce of fromDot: o = typeof o === 'object' ? o[i] : o, segment by segment
RECURSIVE fromDotReduce(_, _)
fromDotReduce(o, segs) ==
  IF Len(segs) = 0 \/ IsThrow(o) THEN o
  ELSE fromDotReduce(
         (CASE o.t = "null" -> Throw("TypeError")
            [] o.t = "object" -> Lookup(o.o, segs[1])
            [] o.t = "array" -> Undefined
            [] OTHER -> o),
         Tail(segs))

\* fromDot(obj, path)
fromDot(obj, path) ==
  IF path = "" THEN obj ELSE fromDotReduce(obj, split(path, "."))

\* the names of the declared containers, in some fixed order
RECURSIVE setToSeq(_)
setToSeq(S) ==
  IF S = {} THEN <<>>
  ELSE LET x == CHOOSE y \in S : TRUE IN <<x>> \o setToSeq(S \ {x})

\* `this` as the paths of a key or a guard read it: the subclass's properties,
\* this.parent, and the proxy this.$<name> that setProxy keeps on the data of
\* every container
this ==
  LET names == setToSeq(DOMAIN containers)
  IN self
     \o <<[k |-> "parent", v |-> parent]>>
     \o [i \in 1..Len(names) |->
           [k |-> "$" \o names[i], v |-> containers[names[i]].data]]

\* getContainer(name) is truthy
HasContainer(name) == name \in DOMAIN containers

\* getFieldFromContainer(container_name, field)
getFieldFromContainer(container_name, field) ==
  LET context_group == IF HasContainer(container_name)
                       THEN containers[container_name].data
                       ELSE Null
  IN fromDot(context_group, field)

\* one item of the guard after the three substitutions of parseCondition: a
\* value read from the parent, the model or a container, or the item's own text
conditionItem(item) ==
  LET splitted_keys == split(item, ".")
      model_path == sliceMiddle(splitted_keys)
      property_name == sliceLast(splitted_keys)
  IN CASE splitted_keys[1] = "^" ->
            [sub |-> TRUE, v |-> Get(fromDot(parent, model_path), property_name)]
       [] splitted_keys[1] = "&" ->
            [sub |-> TRUE, v |-> Get(fromDot(Obj(this), model_path), property_name)]
       [] splitted_keys[1] = "@" ->
            [sub |-> TRUE,
             v |-> Get(getFieldFromContainer(replace(splitted_keys[1], "@", ""),
                                             model_path),
                       property_name)]
       [] OTHER -> [sub |-> FALSE, v |-> Str(item)]

\* the text Array.prototype.join gives an item: '' for undefined and null
itemText(it) ==
  IF it.v.t \in {"undefined", "null"} THEN "" ELSE toStr(it.v)

\* a JavaScript operand of the guard grammar as a value: a literal, or the
\* exception that evaluating the text throws
operand(text) ==
  LET q == IF Len(text) >= 2 THEN Head(text) ELSE ""
  IN CASE text = "true" -> Bool(TRUE)
       [] text = "false" -> Bool(FALSE)
       [] text = "null" -> Null
       [] text = "undefined" -> Undefined
       [] text = "NaN" -> NaN
       [] Len(text) > 0 /\ digitPrefix(text) = Len(text) -> Num(digitsToNat(text, 0))
       [] /\ q \in {"'", "\""} /\ charAt(text, Len(text)) = q
          /\ indexOf(SubSeq(text, 2, Len(text) - 1), q) < 0 ->
            Str(SubSeq(text, 2, Len(text) - 1))
       [] Len(text) > 0 /\ removeAll(text, {"(", ")", "[", "]", "{", "}", "=", "!",
                                             "<", ">", "'", "\"", ",", "^", "&", "@"})
                           = text /\ ~IsDigit(Head(text)) ->
            Throw("ReferenceError")
       [] OTHER -> Throw("SyntaxError")

\* a == b
looseEq(a, b) ==
  LET Numbers(x, y) == x.t = "number" /\ y.t = "number" /\ x.n = y.n
  IN CASE a.t \in {"undefined", "null"} \/ b.t \in {"undefined", "null"} ->
            a.t \in {"undefined", "null"} /\ b.t \in {"undefined", "null"}
       [] a.t = "string" /\ b.t = "string" -> a.s = b.s
       [] OTHER -> Numbers(ToNumber(a), ToNumber(b))

\* a === b, for the values a literal can be
strictEq(a, b) == a.t # "NaN" /\ a = b

\* a op b for the comparison operators on operands that are not both strings
compare(op, a, b) ==
  LET Numbers(x, y) ==
        CASE op = "<" -> Bool(x.t = "number" /\ y.t = "number" /\ x.n < y.n)
          [] op = "<=" -> Bool(x.t = "number" /\ y.t = "number" /\ x.n <= y.n)
          [] op = ">" -> Bool(x.t = "number" /\ y.t = "number" /\ x.n > y.n)
          [] op = ">=" -> Bool(x.t = "number" /\ y.t = "number" /\ x.n >= y.n)
          [] OTHER -> Throw("SyntaxError")
  IN CASE op = "==" -> Bool(looseEq(a, b))
       [] op = "!=" -> Bool(~looseEq(a, b))
       [] op = "===" -> Bool(strictEq(a, b))
       [] op = "!==" -> Bool(~strictEq(a, b))
       [] OTHER -> Numbers(ToNumber(a), ToNumber(b))

\* Function('return ' + expression)() for the guard grammar: nothing, one
\* operand, or one comparison of two operands; any other text is taken as one
\* the engine rejects
evaluate(expression) ==
  LET Binary(op, a, b) ==
        IF IsThrow(a) THEN a ELSE IF IsThrow(b) THEN b ELSE compare(op, a, b)
      Tokens(toks) ==
        CASE Len(toks) = 0 -> Undefined
          [] Len(toks) = 1 -> operand(toks[1])
          [] Len(toks) = 3 -> Binary(toks[2], operand(toks[1]), operand(toks[3]))
          [] OTHER -> Throw("SyntaxError")
  IN Tokens(SelectSeq(split(expression, " "), LAMBDA t : t # ""))

\* parseCondition as it would be if the guard's text were never evaluated
parseConditionAlways(expression) == Bool(TRUE)

\* parseCondition(expression): the value of the guard, or the exception that
\* a substitution or the evaluation throws
parseCondition(expression) ==
  LET Substituted(items) ==
        IF \E i \in 1..Len(items) : IsThrow(items[i].v)
        THEN items[CHOOSE i \in 1..Len(items) :
                     /\ IsThrow(items[i].v)
                     /\ \A j \in 1..(i - 1) : ~IsThrow(items[j].v)].v
        ELSE evaluate(join([i \in 1..Len(items) |-> itemText(items[i])], " "))
      Items(raw) == Substituted([i \in 1..Len(raw) |-> conditionItem(raw[i])])
  IN Items(split(expression, " "))

(***************************************************************************)
(* Indirect processor names                                                *)
(***************************************************************************)

\* the depth of recursion at which the engine's call stack is exhausted
StackLimit == 6

\* getProcessor as it would be without `return this.getProcessor(processor_name)`:
\* the entry's spec is returned as it is, indirect or not
getProcessorOneHop(name, visited) ==
  IF indexOf(name, "@") >= 0
  THEN LET splitted_keys == split(replace(name, "@", ""), ".")
           container_name == splitted_keys[1]
           property_name == sliceLast(splitted_keys)
           seen == Append(visited, <<container_name, property_name>>)
       IN IF HasContainer(container_name)
          THEN IF ~HasKey(containers[container_name].fields, property_name)
               THEN [status |-> "TypeError", spec |-> "", visited |-> seen]
               ELSE [status |-> "ok",
                     spec |-> SpecOf(containers[container_name].fields, property_name),
                     visited |-> seen]
          ELSE [status |-> "undefined", spec |-> "", visited |-> visited]
  ELSE [status |-> "ok", spec |-> name, visited |-> visited]

\* getProcessor(name) at a given depth of its recursion: [status, spec, visited].
\* status "ok": spec is the string returned; "undefined": the call returned
\* undefined (no such container); "TypeError": container.fields[property_name]
\* is undefined and .indexOf was read from it; "exhausted": the recursion has
\* used the whole call stack.  visited lists the <<container, field>> pairs
\* looked up, in order.
RECURSIVE getProcessorAt(_, _)
getProcessorAt(name, visited) ==
  IF Len(visited) >= StackLimit
  THEN [status |-> "exhausted", spec |-> "", visited |-> visited]
  ELSE IF indexOf(name, "@") >= 0
  THEN LET splitted_keys == split(replace(name, "@", ""), ".")
           container_name == splitted_keys[1]
           property_name == sliceLast(splitted_keys)
           seen == Append(visited, <<container_name, property_name>>)
       IN IF HasContainer(container_name)
          THEN LET fields == containers[container_name].fields
               IN IF ~HasKey(fields, property_name)
                  THEN [status |-> "TypeError", spec |-> "", visited |-> seen]
                  ELSE LET processor_name == SpecOf(fields, property_name)
                       IN IF indexOf(processor_name, "@") >= 0
                          THEN getProcessorAt(processor_name, seen)
                          ELSE [status |-> "ok", spec |-> processor_name,
                                visited |-> seen]
          ELSE [status |-> "undefined", spec |-> "", visited |-> visited]
  ELSE [status |-> "ok", spec |-> name, visited |-> visited]

\* getProcessor(name).  A recursion that exhausts the stack ends in a
\* RangeError, or, on an engine that makes the tail call
\* `return this.getProcessor(processor_name)` without a new frame
\* (tail_calls), never ends.
getProcessor(name, tail_calls) ==
  LET Ended(r) ==
        IF r.status = "exhausted"
        THEN [r EXCEPT !.status = IF tail_calls THEN "Diverges" ELSE "RangeError"]
        ELSE r
  IN Ended(getProcessorAt(name, <<>>))

(***************************************************************************)
(* Field extraction                                                        *)
(***************************************************************************)

\* The body of the map callback of getFields for the entry keyed el of a
\* container: what the callback computed up to the point where it returned or
\* threw.  [el, threw, included, guard, is_external, model, property_name,
\* field_name, value, spec, output]: threw is the exception's name or "",
\* guard the value of the condition, model the root the value is read from,
\* value what is fed to the chain, spec the resolved chain, output what the
\* callback stores under field_name.
fieldEntry(container, el, proc_spec, tail_calls) ==
  LET none == [el |-> el, threw |-> "", included |-> FALSE, guard |-> Bool(TRUE),
               is_external |-> FALSE, model |-> container.data,
               property_name |-> el, field_name |-> el, value |-> Null,
               spec |-> "", output |-> Undefined]
      has_dot == indexOf(el, ".") >= 0
      splitted_keys == split(split(el, " ")[1], ".")
      marker == splitted_keys[1]
      is_external == has_dot /\ (marker = "^" \/ marker = "&" \/ indexOf(marker, "@") = 0)
      model_path == sliceMiddle(splitted_keys)
      el_without_cond == trim(removeCondition(el))
      is_alias == indexOf(el_without_cond, " as ") >= 0
      property_name == IF is_alias /\ ~is_external THEN split(el_without_cond, " as ")[1]
                       ELSE IF has_dot THEN sliceLast(splitted_keys)
                       ELSE el
      field_name == IF is_alias THEN split(el_without_cond, " as ")[2]
                    ELSE IF has_dot THEN sliceLast(splitted_keys)
                    ELSE el
      \* result[field_name] = processors(value)
      Stored(sofar, run) ==
        IF IsThrow(run.value)
        THEN [sofar EXCEPT !.threw = run.value.t]
        ELSE [sofar EXCEPT !.included = TRUE, !.output = run.value]
      \* proc_names = this.getProcessor(container.fields[el])
      Resolved(sofar, value, proc) ==
        IF proc.status = "undefined"
        THEN [sofar EXCEPT !.threw = "TypeError"]
        ELSE IF proc.status # "ok"
        THEN [sofar EXCEPT !.threw = proc.status]
        ELSE Stored([sofar EXCEPT !.spec = proc.spec],
                    createProcessorCallie(proc.spec, value))
      \* value = is_external ? external_value : model[property_name]
      Valued(sofar, value) ==
        Resolved([sofar EXCEPT !.value = value], value,
                 getProcessor(proc_spec, tail_calls))
      \* external_value = model[property_name]
      Read(sofar, model, external_value) ==
        IF has_dot /\ IsThrow(external_value)
        THEN [sofar EXCEPT !.threw = external_value.t]
        ELSE Valued(sofar, IF is_external THEN external_value
                           ELSE Get(model, property_name))
      \* model = the root the marker names
      Rooted(sofar, model) ==
        IF has_dot /\ IsThrow(model)
        THEN [sofar EXCEPT !.threw = model.t, !.model = Undefined]
        ELSE Read([sofar EXCEPT !.model = model], model,
                  Get(model, sliceLast(splitted_keys)))
      \* if (condition_result) { ... }
      Guarded(condition_result) ==
        IF IsThrow(condition_result)
        THEN [none EXCEPT !.threw = condition_result.t]
        ELSE IF ~Truthy(condition_result)
        THEN [none EXCEPT !.guard = condition_result]
        ELSE Rooted([none EXCEPT !.guard = condition_result,
                                 !.is_external = is_external,
                                 !.property_name = property_name,
                                 !.field_name = field_name],
                    IF ~is_external THEN container.data
                    ELSE IF indexOf(marker, "@") = 0
                         THEN getFieldFromContainer(replace(marker, "@", ""), model_path)
                    ELSE IF marker = "^" /\ Truthy(parent) THEN fromDot(parent, model_path)
                    ELSE IF marker = "&" THEN fromDot(Obj(this), model_path)
                    ELSE container.data)
      Matched(condition) ==
        Guarded(IF condition.found THEN parseCondition(condition.group)
                ELSE Bool(TRUE))
  IN Matched(matchCondition(el))

\* the map of getFields over the entries from position i on: [threw, result, log]
RECURSIVE fieldsLoop(_, _, _, _, _)
fieldsLoop(container, i, result, log, tail_calls) ==
  IF i > Len(container.fields) THEN [threw |-> "", result |-> result, log |-> log]
  ELSE LET Entry(e) ==
             IF e.threw # ""
             THEN [threw |-> e.threw, result |-> <<>>, log |-> Append(log, e)]
             ELSE fieldsLoop(container, i + 1,
                             IF e.included THEN Store(result, e.field_name, e.output)
                             ELSE result,
                             Append(log, e), tail_calls)
       IN Entry(fieldEntry(container, container.fields[i].k, container.fields[i].v,
                           tail_calls))

\* getFields(container_name): [threw, result, log, diag]; result holds the
\* entries of the object returned when threw is "", log one record per entry
\* the map reached, diag the console.error reports
getFields(container_name, tail_calls) ==
  IF ~HasContainer(container_name)
  THEN [threw |-> "TypeError", result |-> <<>>, log |-> <<>>, diag |-> <<>>]
  ELSE LET container == containers[container_name]
           Mapped(r) ==
             [threw |-> r.threw, result |-> r.result, log |-> r.log, diag |-> <<>>]
       IN IF Len(container.fields) = 0
          THEN [threw |-> "", result |-> <<>>, log |-> <<>>,
                diag |-> <<"You have to specify field names">>]
          ELSE Mapped(fieldsLoop(container, 1, <<>>, <<>>, tail_calls))

(***************************************************************************)
(* Containers and inheritance                                              *)
(***************************************************************************)

\* this.described_containers[el] is truthy
Described(el) == el \in DOMAIN described_containers

\* the forEach of getExtendedFields as it would be with
\* Object.assign({}, this.described_containers[el], extended): the template
\* listed first wins
RECURSIVE extendAllFirstWins(_, _)
extendAllFirstWins(extends_arr, extended) ==
  IF Len(extends_arr) = 0 THEN extended
  ELSE extendAllFirstWins(Tail(extends_arr),
                          IF Described(extends_arr[1])
                          THEN assign(described_containers[extends_arr[1]], extended)
                          ELSE extended)

\* the forEach of getExtendedFields over the listed template names
RECURSIVE extendAll(_, _)
extendAll(extends_arr, extended) ==
  IF Len(extends_arr) = 0 THEN extended
  ELSE extendAll(Tail(extends_arr),
                 IF Described(extends_arr[1])
                 THEN assign(extended, described_containers[extends_arr[1]])
                 ELSE extended)

\* getExtendedFields(name): [is_extends, name, extended]; is_extends FALSE is
\* the `return false` of a name without the keyword
getExtendedFields(name) ==
  LET keyword == " extends "
      parts == split(name, keyword)
      name_splitted == [i \in 1..Len(parts) |-> removeAll(parts[i], WhiteSpace)]
  IN IF indexOf(name, keyword) < 0
     THEN [is_extends |-> FALSE, name |-> name, extended |-> <<>>]
     ELSE [is_extends |-> TRUE, name |-> name_splitted[1],
           extended |->
             IF indexOf(name_splitted[2], "[") >= 0
             THEN extendAll(split(removeAll(name_splitted[2], {"[", "]"}), ","), <<>>)
             ELSE extendAll(<<name_splitted[2]>>, <<>>)]

\* the fields and the name that addContainer and describeContainer end up
\* with: fields = Object.assign({}, fields, extended_fields.extended)
effectiveFields(full_name, fields) ==
  LET extended_fields == getExtendedFields(full_name)
  IN IF extended_fields.is_extends
     THEN [name |-> extended_fields.name,
           fields |-> assign(fields, extended_fields.extended)]
     ELSE [name |-> full_name, fields |-> fields]

\* new Container(model, name, fields, source): data is {} unless a source is given
Container(name, fields, source) ==
  [name |-> name, fields |-> fields,
   data |-> IF Truthy(source) THEN source ELSE Obj(<<>>)]

\* the bulk merge as it would be if the registry were replaced by the added set
MergeReplace(registry, added) == added

\* the entries name -> function of a set of methods, as a sequence
Methods(added) ==
  LET names == setToSeq(DOMAIN added)
  IN [i \in 1..Len(names) |-> [k |-> names[i], v |-> added[names[i]]]]

\* registry[name] = value on a name -> value mapping
Bind(registry, name, value) ==
  [n \in DOMAIN registry \cup {name} |-> IF n = name THEN value ELSE registry[n]]

\* { ...registry, ...added }
Merge(registry, added) ==
  [n \in DOMAIN registry \cup DOMAIN added |->
     IF n \in DOMAIN added THEN added[n] ELSE registry[n]]

(***************************************************************************)
(* Operations                                                              *)
(***************************************************************************)

NoResolve == [status |-> "", spec |-> "", visited |-> <<>>]
NoChain == [names |-> "", data |-> Undefined, value |-> Undefined, log |-> <<>>]

\* the record of a call that returned normally and reported nothing: the
\* operation, its name argument, the field-spec entries or the function it was
\* given, the exception it ended with, the object it returned, what it logged
Call(op, name) ==
  [op |-> op, name |-> name, fields |-> <<>>, proc |-> "", threw |-> "",
   result |-> <<>>, log |-> <<>>, diag |-> <<>>, resolved |-> NoResolve,
   chain |-> NoChain]

\* the program is still running: no call has failed to return
Running == last.threw # "Diverges"

\* new BaseModel(parent): empty registries and containers, then the six
\* processors of the constructor
Constructed(p, props) ==
  /\ processors = Merge(<<>>, BuiltinProcessors)
  /\ modifiers = <<>>
  /\ parent = p
  /\ self = props
  /\ containers = <<>>
  /\ described_containers = <<>>
  /\ last = Call("new", "")

\* addContainer(full_name, fields, source)
AddContainer(full_name, fields, source) ==
  LET e == effectiveFields(full_name, fields)
  IN /\ Running
     /\ containers' = Bind(containers, e.name, Container(e.name, e.fields, source))
     /\ last' = [Call("addContainer", full_name) EXCEPT !.fields = fields]
     /\ UNCHANGED <<processors, modifiers, parent, self, described_containers>>

\* describeContainer as it would be if containers shared the template's
\* entries instead of copying them at declaration: describing a template
\* also lays its entries over every declared container
DescribeContainerLive(full_name, fields) ==
  LET e == effectiveFields(full_name, fields)
  IN /\ Running
     /\ described_containers' = Bind(described_containers, e.name, e.fields)
     /\ containers' = [c \in DOMAIN containers |->
                         [containers[c] EXCEPT !.fields = assign(@, e.fields)]]
     /\ last' = [Call("describeContainer", full_name) EXCEPT !.fields = fields]
     /\ UNCHANGED <<processors, modifiers, parent, self>>

\* describeContainer(full_name, fields)
DescribeContainer(full_name, fields) ==
  LET e == effectiveFields(full_name, fields)
  IN /\ Running
     /\ described_containers' = Bind(described_containers, e.name, e.fields)
     /\ last' = [Call("describeContainer", full_name) EXCEPT !.fields = fields]
     /\ UNCHANGED <<processors, modifiers, parent, self, containers>>

\* containers[name].setSource(source), source an object
SetSource(name, source) ==
  /\ Running
  /\ HasContainer(name)
  /\ containers' = [containers EXCEPT ![name].data = source]
  /\ last' = Call("setSource", name)
  /\ UNCHANGED <<processors, modifiers, parent, self, described_containers>>

\* addModifier({name, proc}); "" stands for a name or a function left out
AddModifier(name, proc) ==
  /\ Running
  /\ IF name = "" \/ proc = ""
     THEN /\ last' = [Call("addModifier", name) EXCEPT
                        !.proc = proc,
                        !.diag = <<"You should specify both name and callback">>]
          /\ UNCHANGED modifiers
     ELSE /\ modifiers' = Bind(modifiers, name, proc)
          /\ last' = [Call("addModifier", name) EXCEPT !.proc = proc]
  /\ UNCHANGED <<processors, parent, self, containers, described_containers>>

\* addFieldProcessor as it would be if only the name were checked
\* (`if (!name)`): a missing function is stored under the name
AddFieldProcessorNameOnly(name, proc) ==
  /\ Running
  /\ IF name = ""
     THEN /\ last' = [Call("addFieldProcessor", name) EXCEPT
                        !.proc = proc,
                        !.diag = <<"You should specify both name and callback">>]
          /\ UNCHANGED processors
     ELSE /\ processors' = Bind(processors, name, proc)
          /\ last' = [Call("addFieldProcessor", name) EXCEPT !.proc = proc]
  /\ UNCHANGED <<modifiers, parent, self, containers, described_containers>>

\* addFieldProcessor({name, proc}); "" stands for a name or a function left out
AddFieldProcessor(name, proc) ==
  /\ Running
  /\ IF name = "" \/ proc = ""
     THEN /\ last' = [Call("addFieldProcessor", name) EXCEPT
                        !.proc = proc,
                        !.diag = <<"You should specify both name and callback">>]
          /\ UNCHANGED processors
     ELSE /\ processors' = Bind(processors, name, proc)
          /\ last' = [Call("addFieldProcessor", name) EXCEPT !.proc = proc]
  /\ UNCHANGED <<modifiers, parent, self, containers, described_containers>>

\* addFieldProcessorsBulk(added)
AddFieldProcessorsBulk(added) ==
  /\ Running
  /\ processors' = Merge(processors, added)
  /\ last' = [Call("addFieldProcessorsBulk", "") EXCEPT !.fields = Methods(added)]
  /\ UNCHANGED <<modifiers, parent, self, containers, described_containers>>

\* addModifiersBulk(added)
AddModifiersBulk(added) ==
  /\ Running
  /\ modifiers' = Merge(modifiers, added)
  /\ last' = [Call("addModifiersBulk", "") EXCEPT !.fields = Methods(added)]
  /\ UNCHANGED <<processors, parent, self, containers, described_containers>>

\* getFields as it would be if it kept its result as the container's data
GetFieldsKeeping(container_name) ==
  /\ Running
  /\ HasContainer(container_name)
  /\ \E tail_calls \in BOOLEAN :
       LET Got(r) ==
             /\ last' = [Call("getFields", container_name) EXCEPT
                           !.threw = r.threw, !.result = r.result, !.log = r.log,
                           !.diag = r.diag]
             /\ containers' = [containers EXCEPT ![container_name].data = Obj(r.result)]
       IN Got(getFields(container_name, tail_calls))
  /\ UNCHANGED <<processors, modifiers, parent, self, described_containers>>

\* getFields(container_name), as generateQuery calls it for a container that exists
GetFields(container_name) ==
  /\ Running
  /\ HasContainer(container_name)
  /\ \E tail_calls \in BOOLEAN :
       LET Got(r) ==
             [Call("getFields", container_name) EXCEPT
                !.threw = r.threw, !.result = r.result, !.log = r.log,
                !.diag = r.diag]
       IN last' = Got(getFields(container_name, tail_calls))
  /\ UNCHANGED <<processors, modifiers, parent, self, containers, described_containers>>

\* getProcessor(name)
GetProcessor(name) ==
  /\ Running
  /\ \E tail_calls \in BOOLEAN :
       LET Resolved(r) ==
             [Call("getProcessor", name) EXCEPT
                !.threw = IF r.status \in {"ok", "undefined"} THEN "" ELSE r.status,
                !.resolved = r]
       IN last' = Resolved(getProcessor(name, tail_calls))
  /\ UNCHANGED <<processors, modifiers, parent, self, containers, described_containers>>

\* createProcessorCallie(names)(data)
RunChain(names, data) ==
  /\ Running
  /\ LET Ran(r) ==
           [Call("createProcessorCallie", names) EXCEPT
              !.threw = IF IsThrow(r.value) THEN r.value.t ELSE "",
              !.chain = [names |-> names, data |-> data, value |-> r.value,
                         log |-> r.log]]
     IN last' = Ran(createProcessorCallie(names, data))
  /\ UNCHANGED <<processors, modifiers, parent, self, containers, described_containers>>

(***************************************************************************)
(* Declarations with inheritance                                           *)
(***************************************************************************)

\* the entries of a field-spec mapping, written key by key
F(k, v) == [k |-> k, v |-> v]

\* a data source: the form data of the example
FormData == Obj(<<F("x", Str("12")), F("y", Str("Karen"))>>)

TemplateNames == {"A", "B", "B extends A"}
TemplateFields ==
  { <<F("x", "int")>>,
    <<F("x", "string"), F("y", "int")>> }
ContainerNames == {"C extends A", "C extends [A, B]", "D"}
OwnFields ==
  { <<F("x", "bool")>>,
    <<F("z", "int"), F("y", "string")>> }

InitInherit == Constructed(Null, <<>>)

NextInherit ==
  \/ \E n \in TemplateNames, f \in TemplateFields : DescribeContainer(n, f)
  \/ \E n \in ContainerNames, f \in OwnFields : AddContainer(n, f, Null)
  \/ SetSource("C", FormData)
  \/ AddFieldProcessor("num", "int")
  \/ AddModifier("default", "default")
  \/ \E c \in {"C", "D"} : GetFields(c)

\* declarations, re-declarations and extraction over a few templates and containers
SpecInherit == InitInherit /\ [][NextInherit]_vars

\* the name a declaration stores its mapping under
CanonicalName(full_name) == getExtendedFields(full_name).name

\* C1: after addContainer or describeContainer of a name with an extends
\* clause, every key that the explicit mapping and an extended template both
\* define maps, in the mapping stored for the declared name, to the
\* processor-spec of the explicit mapping.
C1_OwnFieldsWin ==
  (last.op \in {"addContainer", "describeContainer"}
   /\ getExtendedFields(last.name).is_extends)
  => LET stored == IF last.op = "addContainer"
                   THEN containers[CanonicalName(last.name)].fields
                   ELSE described_containers[CanonicalName(last.name)]
     IN \A i \in 1..Len(last.fields) :
          HasKey(getExtendedFields(last.name).extended, last.fields[i].k)
          => /\ HasKey(stored, last.fields[i].k)
             /\ SpecOf(stored, last.fields[i].k) = last.fields[i].v

\* C9: a declared container stays declared and keeps its field-spec mapping
\* across every step that is not an addContainer for its canonical name.
C9_FieldsFixedAtDeclaration ==
  [][\A c \in DOMAIN containers :
       /\ c \in DOMAIN containers'
       /\ ~(last'.op = "addContainer" /\ CanonicalName(last'.name) = c)
          => containers'[c].fields = containers[c].fields]_vars

\* C9 witness: container C, declared as extending A, exists when A has just
\* been described with a spec for x other than the one C holds
C9_TemplateRedescribed ==
  /\ last.op = "describeContainer"
  /\ CanonicalName(last.name) = "A"
  /\ HasContainer("C")
  /\ HasKey(containers["C"].fields, "x")
  /\ SpecOf(containers["C"].fields, "x") # SpecOf(described_containers["A"], "x")

(***************************************************************************)
(* Processor chains on their own                                           *)
(***************************************************************************)

\* the modifiers PostModel registers
ExampleModifiers ==
  [name \in {"strip", "allow", "default"} |-> name]

ChainNames ==
  { "int", "string.int", "bool.string",
    "allow:[null].string.strip:15", "allow:[1,2].int", "allow:\"Karen\".usd",
    "int.default:5", "string.default:\"qweqw\"", "default:0.bool",
    "strip:0.string", "strip:2.kzt",
    "pair:[7,true].int", "pair:[0,true].string", "pair:[null,false].bool",
    "pair:[\"\"].string", "pair:[].int.usd",
    "nop.int", "bool.nop:1.string", "strip:{.int", "default:.int" }

ChainData ==
  { Undefined, Null, Num(0), Num(2), Num(3), Str(""), Str("Karen"), Str("12"),
    Bool(TRUE), Arr(<<Num(1), Num(2)>>) }

InitChain == Constructed(Null, <<>>)

NextChain ==
  \/ AddModifiersBulk(ExampleModifiers)
  \/ AddModifier("pair", "pair")
  \/ \E names \in ChainNames, data \in ChainData : RunChain(names, data)

\* chains run on a value, before and after the modifiers are registered
SpecChain == InitChain /\ [][NextChain]_vars

\* the token of log entry e is a modifier token whose registered function was
\* called and returned an object
ModifierReturned(e) == e.called /\ indexOf(e.name, ":") >= 0 /\ ~IsThrow(e.ret)

\* the modifier call of log entry e returned a truthy break
Broke(e) == ModifierReturned(e) /\ Truthy(Get(e.ret, "break"))

\* C2: the tokens of a chain are applied from the first on, each to the
\* accumulator the one before left; after a token whose modifier returned a
\* truthy break no later token is reached, and the chain returns the
\* accumulator as it stood after that token.
C2_BreakHaltsChain ==
  last.op = "createProcessorCallie"
  => LET log == last.chain.log
         names_ar == split(last.chain.names, ".")
     IN /\ Len(log) <= Len(names_ar)
        /\ \A j \in 1..Len(log) :
             /\ log[j].idx = j
             /\ log[j].name = names_ar[j]
             /\ log[j].before = IF j = 1 THEN last.chain.data ELSE log[j - 1].acc
        /\ \A j \in 1..Len(log) :
             Broke(log[j]) => j = Len(log) /\ last.chain.value = log[j].acc

\* C2 witness: a modifier broke the chain before its last token, having
\* replaced the accumulator
C2_BrokeBeforeEnd ==
  /\ last.op = "createProcessorCallie"
  /\ \E j \in 1..Len(last.chain.log) :
       /\ Broke(last.chain.log[j])
       /\ j < Len(split(last.chain.names, "."))
       /\ last.chain.log[j].acc # last.chain.log[j].before

\* C6: after a modifier token whose function returned an object with a value,
\* the accumulator is that value; after one whose object has no value, the
\* accumulator is what it was before the token.
C6_ValueReplacesAccumulator ==
  last.op = "createProcessorCallie"
  => \A j \in 1..Len(last.chain.log) :
       LET e == last.chain.log[j]
       IN ModifierReturned(e)
          => IF Get(e.ret, "value") # Undefined
             THEN e.acc = Get(e.ret, "value")
             ELSE e.acc = e.before

(***************************************************************************)
(* Registration                                                            *)
(***************************************************************************)

InitRegistry == Constructed(Null, <<>>)

NextRegistry ==
  \/ \E name \in {"", "num", "int"}, proc \in {"", "int", "string"} :
       AddFieldProcessor(name, proc)
  \/ \E name \in {"", "strip", "allow"}, proc \in {"", "strip", "allow"} :
       AddModifier(name, proc)

\* registrations, complete and incomplete, in any order
SpecRegistry == InitRegistry /\ [][NextRegistry]_vars

\* registry `after` is registry `before` with exactly name bound to proc
BoundOnly(before, after, name, proc) ==
  /\ DOMAIN after = DOMAIN before \cup {name}
  /\ after[name] = proc
  /\ \A n \in DOMAIN before \ {name} : after[n] = before[n]

\* C10: addFieldProcessor and addModifier without a name or without a function
\* report an error and leave both registries as they were; with both, they
\* bind exactly that name to that function in their own registry and leave
\* every other entry of both registries as it was.
C10_FailedRegistrationChangesNothing ==
  [][/\ last'.op = "addFieldProcessor"
        => IF last'.name = "" \/ last'.proc = ""
           THEN processors' = processors /\ modifiers' = modifiers /\ last'.diag # <<>>
           ELSE /\ BoundOnly(processors, processors', last'.name, last'.proc)
                /\ modifiers' = modifiers /\ last'.diag = <<>>
     /\ last'.op = "addModifier"
        => IF last'.name = "" \/ last'.proc = ""
           THEN processors' = processors /\ modifiers' = modifiers /\ last'.diag # <<>>
           ELSE /\ BoundOnly(modifiers, modifiers', last'.name, last'.proc)
                /\ processors' = processors /\ last'.diag = <<>>]_vars

\* C10 witness: a registration that names a processor but gives no function
\* has been refused, after another one went through
C10_RefusedRegistration ==
  /\ last.op = "addFieldProcessor"
  /\ last.name = "num" /\ last.proc = ""
  /\ last.diag # <<>>
  /\ "num" \in DOMAIN processors

(***************************************************************************)
(* Extraction with guards and external references                          *)
(***************************************************************************)

\* the model's parent: none, or one with a flag q and a nested object a
Parent(q) ==
  Obj(<<F("x", Str("px")), F("q", Bool(q)), F("a", Obj(<<F("x", Num(7))>>))>>)

ParentPool == {Null, Parent(TRUE), Parent(FALSE)}

\* the subclass's own properties read by the guards
SelfPool ==
  { <<F("isActive", Bool(TRUE)), F("count", Num(3))>>,
    <<F("isActive", Bool(FALSE)), F("count", Num(1))>>,
    <<F("isActive", Bool(TRUE)), F("count", Num(1))>> }

\* the field-spec mappings declared for container c
CFields ==
  { <<F("x", "int"), F("flag if(&.isActive == true)", "bool"), F("y", "string")>>,
    <<F("y as full_name if(^.q == true)", "string"), F("x", "int")>>,
    <<F("x if(&.isActive == false)", "int"), F("y as x", "string")>>,
    <<F("y if(&.count >= 2)", "string"), F("x", "int")>>,
    <<F("^.x", "string"), F("y", "string")>>,
    <<F("^.a.x as ax", "int"), F("y", "string")>>,
    <<F("@d.x as dx", "int"), F("y", "string")>>,
    <<F("&.a.b.z", "string"), F("y", "string")>>,
    <<F("x", "int"), F("y if(&.isActive ==)", "string")>>,
    <<F("x", "strip:{"), F("y", "string")>> }

InitFields == \E p \in ParentPool, props \in SelfPool : Constructed(p, props)

NextFields ==
  \/ \E fields \in CFields : AddContainer("c", fields, FormData)
  \/ \E source \in {Null, FormData} : AddContainer("d", <<F("x", "int")>>, source)
  \/ AddModifiersBulk(ExampleModifiers)
  \/ \E c \in {"c", "d"} : GetFields(c)

\* a model with or without a parent declares containers c and d and extracts them
SpecFields == InitFields /\ [][NextFields]_vars

\* the keys of CFields that carry a guard
HasGuard(el) ==
  el \in {"flag if(&.isActive == true)", "y as full_name if(^.q == true)",
          "x if(&.isActive == false)", "y if(&.count >= 2)"}

\* what the guard of such a key says of the model and its parent
GuardHolds(el) ==
  CASE el = "flag if(&.isActive == true)" -> Lookup(self, "isActive") = Bool(TRUE)
    [] el = "y as full_name if(^.q == true)" -> Get(parent, "q") = Bool(TRUE)
    [] el = "x if(&.isActive == false)" -> Lookup(self, "isActive") = Bool(FALSE)
    [] el = "y if(&.count >= 2)" -> Lookup(self, "count").n >= 2

\* the output key such a key names
GuardedKey(el) ==
  CASE el = "flag if(&.isActive == true)" -> "flag"
    [] el = "y as full_name if(^.q == true)" -> "full_name"
    [] el = "x if(&.isActive == false)" -> "x"
    [] el = "y if(&.count >= 2)" -> "y"

\* C3: when getFields returns, it has gone through every entry of the
\* container; an entry with a guard is in the result if and only if its guard
\* is true, an entry without one always is; the key of an entry whose guard is
\* false is absent from the result unless another entry wrote it.
C3_GuardGating ==
  (last.op = "getFields" /\ last.name = "c" /\ last.threw = "")
  => LET fields == containers["c"].fields
     IN /\ Len(last.log) = Len(fields)
        /\ \A j \in 1..Len(fields) :
             /\ last.log[j].el = fields[j].k
             /\ last.log[j].included = (HasGuard(fields[j].k) => GuardHolds(fields[j].k))
             /\ last.log[j].included = (last.log[j].guard = Bool(TRUE))
             /\ last.log[j].guard \in {Bool(TRUE), Bool(FALSE)}
             /\ last.log[j].included => HasKey(last.result, last.log[j].field_name)
             /\ (/\ ~last.log[j].included
                 /\ \A i \in 1..Len(fields) :
                      last.log[i].included
                      => last.log[i].field_name # GuardedKey(fields[j].k))
                => ~HasKey(last.result, GuardedKey(fields[j].k))

\* C3 witness: an entry was left out because its guard is false, and the
\* entry after it was extracted
C3_GuardedOut ==
  /\ last.op = "getFields" /\ last.name = "c" /\ last.threw = ""
  /\ \E j \in 1..(Len(last.log) - 1) :
       /\ HasGuard(last.log[j].el) /\ ~GuardHolds(last.log[j].el)
       /\ ~last.log[j].included
       /\ ~HasKey(last.result, GuardedKey(last.log[j].el))
       /\ last.log[j + 1].included

\* a sequence without its j-th element
Remove(seq, j) == SubSeq(seq, 1, j - 1) \o SubSeq(seq, j + 1, Len(seq))

\* the result getFields returned has every entry of the result it returns for
\* the container's mapping without its j-th entry
SiblingsKept(container, j) ==
  LET Kept(without) ==
        /\ without.threw = ""
        /\ \A i \in 1..Len(without.result) :
             /\ HasKey(last.result, without.result[i].k)
             /\ Lookup(last.result, without.result[i].k) = without.result[i].v
  IN Kept(fieldsLoop([container EXCEPT !.fields = Remove(@, j)], 1, <<>>, <<>>, FALSE))

\* the root that the external reference of a key of CFields names is missing
MissingRoot(el) ==
  CASE el \in {"^.x", "^.a.x as ax"} -> parent = Null
    [] el = "@d.x as dx" -> ~HasContainer("d")
    [] el = "&.a.b.z" -> TRUE
    [] OTHER -> FALSE

\* C4: getFields on a container with an entry whose external reference names
\* a missing root returns; the value fed to that entry's chain is undefined;
\* the other entries are in the result as they are without that entry.
C4_MissingRootRecoverable ==
  (last.op = "getFields" /\ last.name = "c")
  => \A j \in 1..Len(containers["c"].fields) :
       MissingRoot(containers["c"].fields[j].k)
       => /\ last.threw = ""
          /\ Len(last.log) = Len(containers["c"].fields)
          /\ last.log[j].value = Undefined
          /\ SiblingsKept(containers["c"], j)

\* the guard of the key does not parse, or a modifier's parameters are not JSON
Malformed(entry) == entry.k = "y if(&.isActive ==)" \/ entry.v = "strip:{"

\* C5: getFields on a container with an entry whose guard or modifier
\* parameters do not parse returns, and the other entries are in the result
\* as they are without that entry.
C5_ParseErrorKeepsSiblings ==
  (last.op = "getFields" /\ last.name = "c")
  => \A j \in 1..Len(containers["c"].fields) :
       Malformed(containers["c"].fields[j])
       => last.threw = "" /\ SiblingsKept(containers["c"], j)

(***************************************************************************)
(* Indirect processor specs                                                *)
(***************************************************************************)

\* the data of containers a and b
ResolveData == Obj(<<F("f", Str("12")), F("g", Str("Karen")), F("h", Num(3))>>)

AFields ==
  { <<F("f", "@b.g"), F("h", "int")>>,
    <<F("f", "@a.f"), F("h", "string")>>,
    <<F("f", "@b.p.g"), F("h", "@b.g")>> }

BFields ==
  { <<F("g", "@a.f")>>, <<F("g", "string.strip:2")>>, <<F("g", "@a.h")>> }

ProcessorNames ==
  {"@a.f", "@b.g", "@a.h", "@b.p.g", "@a.nokey", "int", "string.strip:2"}

InitResolve == Constructed(Null, <<>>)

NextResolve ==
  \/ \E fields \in AFields : AddContainer("a", fields, ResolveData)
  \/ \E fields \in BFields : AddContainer("b", fields, ResolveData)
  \/ AddModifiersBulk(ExampleModifiers)
  \/ \E name \in ProcessorNames : GetProcessor(name)
  \/ \E c \in {"a", "b"} : GetFields(c)

\* containers whose specs point at each other's entries, resolved and extracted
SpecResolve == InitResolve /\ [][NextResolve]_vars

\* C7: getProcessor returns or fails, never runs on; it looks up no
\* container+field pair twice, and it fails with nothing but the TypeError of
\* a missing entry or RecursionLimitExceeded on a cycle.
C7_CycleStopsResolution ==
  last.op = "getProcessor"
  => /\ last.threw \in {"", "TypeError", "RecursionLimitExceeded"}
     /\ \A i, j \in 1..Len(last.resolved.visited) :
          last.resolved.visited[i] = last.resolved.visited[j] => i = j

\* the spec has the marker of an indirect reference
Indirect(spec) == indexOf(spec, "@") >= 0

\* the container and the field an indirect spec names: its first and its last
\* path segment
TargetOf(spec) ==
  LET segs == split(replace(spec, "@", ""), ".")
  IN [container |-> segs[1], field |-> segs[Len(segs)]]

\* the number of entries declared over all containers
Entries ==
  LET names == setToSeq(DOMAIN containers)
      RECURSIVE Count(_)
      Count(i) == IF i > Len(names) THEN 0
                  ELSE Len(containers[names[i]].fields) + Count(i + 1)
  IN Count(1)

\* following entries from spec, within n lookups, ends at the marker-free spec c
RECURSIVE Reaches(_, _, _)
Reaches(spec, c, n) ==
  IF ~Indirect(spec) THEN spec = c
  ELSE /\ n > 0
       /\ HasContainer(TargetOf(spec).container)
       /\ HasKey(containers[TargetOf(spec).container].fields, TargetOf(spec).field)
       /\ Reaches(SpecOf(containers[TargetOf(spec).container].fields,
                         TargetOf(spec).field), c, n - 1)

\* the marker-free specs declared anywhere
ConcreteSpecs ==
  {"int", "string", "string.strip:2"}

\* C8: getProcessor returns a spec without a marker unchanged; for an indirect
\* spec from which following the entries ends at a marker-free spec, it
\* returns that spec; getFields runs exactly the chain so reached on the
\* value of each entry it extracts.
C8_TransitiveResolution ==
  /\ last.op = "getProcessor"
     => /\ ~Indirect(last.name)
           => last.resolved.status = "ok" /\ last.resolved.spec = last.name
        /\ \A c \in ConcreteSpecs :
             Reaches(last.name, c, Entries)
             => last.resolved.status = "ok" /\ last.resolved.spec = c
  /\ (last.op = "getFields" /\ last.name \in {"a", "b"})
     => \A j \in 1..Len(last.log) :
          /\ \A c \in ConcreteSpecs :
               Reaches(containers[last.name].fields[j].v, c, Entries)
               => /\ last.log[j].included
                  /\ last.log[j].spec = c
                  /\ last.log[j].output
                       = createProcessorCallie(c, last.log[j].value).value
          /\ last.log[j].included
             => Reaches(containers[last.name].fields[j].v, last.log[j].spec, Entries)

\* C8 witness: an indirect spec with a path was resolved through two entries
C8_ResolvedThroughChain ==
  /\ last.op = "getProcessor"
  /\ last.name = "@b.p.g"
  /\ last.resolved.status = "ok"
  /\ Len(last.resolved.visited) = 2
  /\ ~Indirect(last.resolved.spec)

(***************************************************************************)
(* Growth of the registries                                                *)
(***************************************************************************)

\* sets of processors registered in bulk: a new name, and an existing name
\* rebound together with a new one
BulkProcessors == {[num |-> "bool"], [int |-> "string", big |-> "int"]}

\* sets of modifiers registered in bulk
BulkModifiers == {ExampleModifiers, [strip |-> "allow", pair |-> "pair"]}

InitGrowth == Constructed(Null, <<>>)

NextGrowth ==
  \/ \E name \in {"", "num"}, proc \in {"", "int", "string"} :
       AddFieldProcessor(name, proc)
  \/ \E added \in BulkProcessors : AddFieldProcessorsBulk(added)
  \/ \E name \in {"", "strip"}, proc \in {"", "strip"} : AddModifier(name, proc)
  \/ \E added \in BulkModifiers : AddModifiersBulk(added)
  \/ AddContainer("c extends A", <<F("x", "num.strip:1")>>, FormData)
  \/ DescribeContainer("A", <<F("y", "big")>>)
  \/ GetFields("c")

\* registrations one by one and in bulk, among declarations and extractions
SpecGrowth == InitGrowth /\ [][NextGrowth]_vars

\* every name of registry `before` is a name of registry `after`
Grown(before, after) == DOMAIN before \subseteq DOMAIN after

\* registry `after` is registry `before` with every entry of the sequence
\* `added` bound and every other entry kept
Merged(before, after, added) ==
  /\ \A i \in 1..Len(added) :
       added[i].k \in DOMAIN after /\ after[added[i].k] = added[i].v
  /\ \A n \in DOMAIN before :
       (\A i \in 1..Len(added) : added[i].k # n)
       => n \in DOMAIN after /\ after[n] = before[n]
  /\ \A n \in DOMAIN after :
       n \in DOMAIN before \/ \E i \in 1..Len(added) : added[i].k = n

\* in every step no registered name is lost, and a bulk registration binds
\* the added names and keeps the other entries
RegistriesGrow ==
  /\ Grown(processors, processors')
  /\ Grown(modifiers, modifiers')
  /\ last'.op = "addFieldProcessorsBulk"
     => Merged(processors, processors', last'.fields) /\ modifiers' = modifiers
  /\ last'.op = "addModifiersBulk"
     => Merged(modifiers, modifiers', last'.fields) /\ processors' = processors
  /\ last'.op \in {"addContainer", "describeContainer", "getFields"}
     => processors' = processors /\ modifiers' = modifiers

\* C11 as stated: right after construction both registries are empty.
C11_RegistriesStartEmpty ==
  last.op = "new" => processors = <<>> /\ modifiers = <<>>

\* C11: when the model is constructed the modifier registry is empty and the
\* processor registry holds the six processors of the constructor; from then
\* on a registered name stays registered in every later state, and a bulk
\* registration binds each added name to the added function and keeps every
\* other entry.
C11_RegistriesOnlyGrow ==
  /\ modifiers = <<>>
  /\ DOMAIN processors = {"int", "string", "array", "bool", "usd", "kzt"}
  /\ [][RegistriesGrow]_vars

\* C11 witness: a bulk registration rebound the existing name int and added
\* big, while num, registered before, is still there
C11_BulkOverExisting ==
  /\ last.op = "addFieldProcessorsBulk"
  /\ processors["int"] = "string"
  /\ "big" \in DOMAIN processors
  /\ "num" \in DOMAIN processors
  /\ "bool" \in DOMAIN processors

(***************************************************************************)
(* Lists of templates                                                      *)
(***************************************************************************)

\* declarations of containers over lists of templates; Z is never described
ListedContainers ==
  {"C extends [A, B]", "C extends [B, A]", "C extends [A, Z, B]"}

InitTemplates == Constructed(Null, <<>>)

NextTemplates ==
  \/ \E n \in {"A", "B"}, fields \in TemplateFields : DescribeContainer(n, fields)
  \/ DescribeContainer("T extends [B, A]", <<F("z", "bool")>>)
  \/ \E n \in ListedContainers :
       AddContainer(n, <<F("y", "bool"), F("z", "array")>>, Null)

\* templates described, re-described and listed by later declarations
SpecTemplates == InitTemplates /\ [][NextTemplates]_vars

\* the template names a declaration lists, in order
ListOf(full_name) ==
  CASE full_name = "C extends [A, B]" -> <<"A", "B">>
    [] full_name = "C extends [B, A]" -> <<"B", "A">>
    [] full_name = "C extends [A, Z, B]" -> <<"A", "Z", "B">>
    [] full_name = "T extends [B, A]" -> <<"B", "A">>
    [] OTHER -> <<>>

\* the part of a declaration before ' extends '
NameOf(full_name) == SubSeq(full_name, 1, indexOf(full_name, " extends "))

\* the positions in the list of the described templates that define key k
Defining(list, k) ==
  {i \in 1..Len(list) : /\ list[i] \in DOMAIN described_containers
                        /\ HasKey(described_containers[list[i]], k)}

\* the greatest element of a non-empty set of positions
Last(S) == CHOOSE i \in S : \A j \in S : j <= i

\* C12: a declaration over a list of templates is stored under the name
\* before ' extends '; a key that its own mapping does not define and that
\* described templates of the list define is mapped to the spec of the last
\* such template in the list; a key that neither defines is not in the
\* stored mapping.
C12_LastTemplateWins ==
  (last.op \in {"addContainer", "describeContainer"} /\ ListOf(last.name) # <<>>)
  => LET list == ListOf(last.name)
         registry == IF last.op = "addContainer"
                     THEN [c \in DOMAIN containers |-> containers[c].fields]
                     ELSE described_containers
     IN /\ NameOf(last.name) \in DOMAIN registry
        /\ \A k \in {"x", "y", "z"} :
             ~HasKey(last.fields, k)
             => IF Defining(list, k) = {}
                THEN ~HasKey(registry[NameOf(last.name)], k)
                ELSE /\ HasKey(registry[NameOf(last.name)], k)
                     /\ SpecOf(registry[NameOf(last.name)], k)
                          = SpecOf(described_containers[list[Last(Defining(list, k))]], k)

\* C12 witness: a container was declared over A, the undescribed Z and B,
\* where A and B give different specs for x, and x is not an own key
C12_TwoTemplatesCollide ==
  /\ last.op = "addContainer"
  /\ last.name = "C extends [A, Z, B]"
  /\ Defining(ListOf(last.name), "x") = {1, 3}
  /\ SpecOf(described_containers["A"], "x") # SpecOf(described_containers["B"], "x")
  /\ ~HasKey(last.fields, "x")
  /\ HasKey(containers["C"].fields, "x")

(***************************************************************************)
(* Keys, aliases and chains in extraction                                  *)
(***************************************************************************)

\* the data of container c: the form data of the example, and a property
\* whose name has a dot
KeyData ==
  Obj(<<F("name", Str("Karen")), F("pass", Str("qwe123")), F("x", Str("12")),
        F("b", Str("last")), F("a.b", Str("whole")), F("flag", Bool(TRUE))>>)

\* the field-spec mappings declared for container c
KeyFields ==
  { <<F("name as full_name", "string"), F("pass", "string")>>,
    <<F("^.a.x as ax if(^.q == true)", "int"), F("&.isActive as active", "bool")>>,
    <<F("@d.x as dx", "int"), F("@d.y", "string")>>,
    <<F("pass if(&.isActive == true)", "string"), F("name", "string")>>,
    <<F("flag if(1 == 1)", "bool"), F("pass", "string")>>,
    <<F("a.b", "string"), F("pass", "string")>>,
    <<F("a.b as c", "string"), F("name", "string")>>,
    <<F("pass if(@d.x == 12)", "string"), F("name", "string")>>,
    <<F("name", "nop.string"), F("pass", "string")>>,
    <<F("name", "string.nop"), F("pass", "nop.usd")>> }

InitExtract ==
  \E p \in {Parent(TRUE), Parent(FALSE)}, props \in SelfPool : Constructed(p, props)

NextExtract ==
  \/ \E fields \in KeyFields : AddContainer("c", fields, KeyData)
  \/ AddContainer("d", <<F("x", "int")>>, FormData)
  \/ AddContainer("e", <<>>, KeyData)
  \/ AddFieldProcessor("nop", "string")
  \/ \E c \in {"c", "d", "e"} : GetFields(c)

\* a model declares containers c, d and the empty e and extracts them
SpecExtract == InitExtract /\ [][NextExtract]_vars

\* the alias of a key of KeyFields, or "" when it has none
AliasOf(el) ==
  CASE el = "name as full_name" -> "full_name"
    [] el = "^.a.x as ax if(^.q == true)" -> "ax"
    [] el = "&.isActive as active" -> "active"
    [] el = "@d.x as dx" -> "dx"
    [] el = "a.b as c" -> "c"
    [] OTHER -> ""

\* the property a key of KeyFields names: its source reference when that is
\* an own field, the last segment of an external reference
PropertyOf(el) ==
  CASE el = "name as full_name" -> "name"
    [] el = "^.a.x as ax if(^.q == true)" -> "x"
    [] el = "&.isActive as active" -> "isActive"
    [] el \in {"@d.x as dx"} -> "x"
    [] el = "@d.y" -> "y"
    [] el \in {"pass if(&.isActive == true)", "pass if(@d.x == 12)"} -> "pass"
    [] el = "flag if(1 == 1)" -> "flag"
    [] el \in {"a.b", "a.b as c"} -> "a.b"
    [] OTHER -> el

\* the output key of a key of KeyFields: the alias, else the property name
OutputKey(el) == IF AliasOf(el) # "" THEN AliasOf(el) ELSE PropertyOf(el)

\* C13: every entry that getFields includes is stored under its alias when
\* the key has one and under its property name otherwise, and the result has
\* no other key.
C13_OutputKeyRule ==
  (last.op = "getFields" /\ last.name = "c" /\ last.threw = "")
  => /\ \A j \in 1..Len(last.log) :
          last.log[j].included
          => /\ last.log[j].field_name = OutputKey(last.log[j].el)
             /\ HasKey(last.result, OutputKey(last.log[j].el))
     /\ \A i \in 1..Len(last.result) :
          \E j \in 1..Len(last.log) :
            last.log[j].included /\ last.result[i].k = OutputKey(last.log[j].el)

\* C14: a guard token @d.x is replaced by the value of x in the data of
\* container d before the guard is evaluated, as ^ and & tokens are: with x
\* being '12' in d, the guard @d.x == 12 is true, and getFields returns with
\* the entry included.
C14_GuardReadsContainer ==
  (/\ last.op = "getFields" /\ last.name = "c"
   /\ HasContainer("d")
   /\ containers["c"].fields[1].k = "pass if(@d.x == 12)")
  => /\ last.threw = ""
     /\ last.log[1].guard = Bool(TRUE)
     /\ last.log[1].included

\* the keys of KeyFields whose source reference starts with no marker
OwnReference(el) ==
  el \in {"name as full_name", "pass", "name", "pass if(&.isActive == true)",
          "pass if(@d.x == 12)", "flag if(1 == 1)", "a.b", "a.b as c"}

\* C15: for every included entry whose source reference starts with no
\* marker, the value fed to the chain is read from the container's own data
\* at the whole source reference, and without an alias the output key is the
\* whole source reference.
C15_OwnReferenceWhole ==
  (last.op = "getFields" /\ last.name = "c" /\ last.threw = "")
  => \A j \in 1..Len(last.log) :
       (last.log[j].included /\ OwnReference(last.log[j].el))
       => /\ ~last.log[j].is_external
          /\ last.log[j].value
               = Lookup(containers["c"].data.o, PropertyOf(last.log[j].el))
          /\ AliasOf(last.log[j].el) = ""
             => last.log[j].field_name = PropertyOf(last.log[j].el)

\* the token names a processor that is not registered
Unregistered(token) == indexOf(token, ":") < 0 /\ token \notin DOMAIN processors

\* in the run of a chain, every unregistered processor token leaves the
\* accumulator undefined and the token after it is applied to undefined
ChainGoesOn(names, run) ==
  \A i \in 1..Len(run.log) :
    Unregistered(run.log[i].name)
    => /\ run.log[i].acc = Undefined
       /\ i < Len(split(names, "."))
          => Len(run.log) > i /\ run.log[i + 1].before = Undefined

\* C16: for an entry whose chain has an unregistered processor token, the
\* accumulator is undefined after that token and the remaining tokens are
\* applied; getFields returns, and the other entries of the container are in
\* the result as they are without that entry.
C16_UnregisteredProcessor ==
  (last.op = "getFields" /\ last.name = "c")
  => \A j \in 1..Len(containers["c"].fields) :
       (\E t \in 1..Len(split(containers["c"].fields[j].v, ".")) :
          Unregistered(split(containers["c"].fields[j].v, ".")[t]))
       => /\ last.threw = ""
          /\ ChainGoesOn(containers["c"].fields[j].v,
                         createProcessorCallie(containers["c"].fields[j].v,
                                               last.log[j].value))
          /\ SiblingsKept(containers["c"], j)

\* C17: a getFields call changes neither the containers, nor the templates,
\* nor the registries; on an empty mapping it returns an empty result; and a
\* call that follows a returned call on the same container returns the same
\* result.
C17_ExtractionReadOnly ==
  [][last'.op = "getFields"
     => /\ containers' = containers
        /\ described_containers' = described_containers
        /\ processors' = processors
        /\ modifiers' = modifiers
        /\ Len(containers[last'.name].fields) = 0
           => last'.threw = "" /\ last'.result = <<>>
        /\ (last.op = "getFields" /\ last.name = last'.name /\ last.threw = "")
           => last'.threw = "" /\ last'.result = last.result]_vars

\* C17 witness: getFields returned for container c with an entry left out by
\* its guard and another one extracted
C17_ExtractedWithGuardedOut ==
  /\ last.op = "getFields" /\ last.name = "c" /\ last.threw = ""
  /\ Len(last.log) = 2
  /\ ~last.log[1].included
  /\ last.log[2].included
  /\ Len(last.result) = 1

=============================================================================
